---- MODULE Spec2Model ----
(***************************************************************************)
(* Model of tracked_point.py: the constant-velocity Kalman estimator, the  *)
(* TrackedPoint life-cycle operations and match_tracks_to_observations.    *)
(*                                                                         *)
(* Numbers.  Observations have integer coordinates.  The estimator mean is *)
(* kept in fixed point, XS units per 1.0; the covariance in units of 1.0;  *)
(* the Kalman gain in fixed point, KS units per 1.0.  Every floating-point *)
(* division or square root of the program is a rounding division or a      *)
(* floor square root here.  The x and y axes of the filter are decoupled   *)
(* (F and Q are block diagonal, H selects the two positions, R and the     *)
(* initial P are diagonal), so the covariance is kept as the one 2x2       *)
(* (position, velocity) block that both axes share.                        *)
(***************************************************************************)
EXTENDS Integers, Sequences, FiniteSets, TLC

\* ---------------------------------------------------------------- bounds
XS == 4
KS == 1000
MaxTracks == 2
MaxObs == 2
MaxLifetime == 3
SigmaQ == 2
SigmaR == 10
CfgBoundMax == 4
CfgTailPoints == 2
CfgMaxNCoasts == 2
CfgMaxCoastLength == 1
MaxKFSteps == 4
MaxCandidates == 3

\* ------------------------------------------------- constants of the code
InitialP == 500
DefaultBoundMax == 1000
DefaultTailPoints == 50
DefaultMaxNCoasts == 20
DefaultMaxCoastLength == 1000

\* ------------------------------------------------------- inputs of a call
ObsPoints == { <<2, 1>>, <<5, 5>> }
ObsLists == UNION { [1..n -> ObsPoints] : n \in 0..MaxObs }
Thresholds == { 5, 6 }
MaxNCoastsArgs == { 1, 3 }
MinLifetimes == { 0, 2 }

\* initial states [x, vx, y, vy] of an estimator taken on its own
KFInitStates ==
    { << x, vx, 1, vy >> : x \in { 0, 2 }, vx \in { -1, 0, 1 }, vy \in { 0, 1 } }

\* the same with a measurement vector (x, y, ...) longer than the position
ObsPointsVec == ObsPoints \cup { <<2, 1, 0>> }
ObsListsVec == UNION { [1..n -> ObsPointsVec] : n \in 0..MaxObs }

\* the frames of an endless run: nothing, one or two observations at the
\* same place inside the Boundary, one observation outside it
LiveObsLists ==
    { << >>, << <<2, 1>> >>, << <<2, 1>>, <<2, 1>> >>, << <<5, 5>> >> }

\* candidate lists handed to nearest_observation called on its own
CandidatePoints == ObsPointsVec \cup { <<4, 5>> }
CandidateLists == UNION { [1..n -> CandidatePoints] : n \in 0..MaxCandidates }

\* --------------------------------------------------------------- helpers
\* Python None, as the empty tuple (comparable with an observation)
None == << >>
Inf == -1

RoundDiv(n, d) == (2 * n + d) \div (2 * d)

\* floor of the square root
RECURSIVE SqrtFrom(_, _)
SqrtFrom(n, r) == IF (r + 1) * (r + 1) > n THEN r ELSE SqrtFrom(n, r + 1)

ISqrt(n) == SqrtFrom(n, 0)

RemoveAt(s, i) == SubSeq(s, 1, i - 1) \o SubSeq(s, i + 1, Len(s))

\* list.remove(v): drops the first element equal to v
ListRemove(s, v) ==
    LET i == CHOOSE k \in 1..Len(s) : s[k] = v /\ \A j \in 1..(k - 1) : s[j] # v
    IN  RemoveAt(s, i)

\* mutant of TailAppend: the append never evicts
TailAppend_NoEvict(tail, e, n) == Append(tail, e)

\* deque.append followed by popleft when longer than n
TailAppend(tail, e, n) ==
    LET t == Append(tail, e)
    IN  IF Len(t) > n THEN Tail(t) ELSE t

\* -------------------------------------------------------------- Bounds2D
Bounds2D(xmin, ymin, xmax, ymax) ==
    [xmin |-> xmin, ymin |-> ymin, xmax |-> xmax, ymax |-> ymax]

contains(b, x, y) ==
    b.xmin <= x /\ x < b.xmax /\ b.ymin <= y /\ y < b.ymax

\* ------------------------------------------------------- state estimator
\* process noise block of Q_discrete_white_noise(dim=2, dt=1, var=Q_std**2)
QBlock(Q_std) ==
    LET var == Q_std * Q_std
    IN  << << RoundDiv(var, 4), RoundDiv(var, 2) >>,
           << RoundDiv(var, 2), var >> >>

point_2d_kalman_filter(initial_state, Q_std, R_std) ==
    [ x |-> << initial_state[1] * XS, initial_state[2] * XS,
               initial_state[3] * XS, initial_state[4] * XS >>,
      P |-> << << InitialP, 0 >>, << 0, InitialP >> >>,
      Q |-> QBlock(Q_std),
      R |-> R_std * R_std ]

\* x <- F x ; P <- F P F' + Q, with F = [[1, dt], [0, 1]] per axis, dt = 1
predict(kf) ==
    LET m == kf.x
        P == kf.P
        FP == << << P[1][1] + P[2][1], P[1][2] + P[2][2] >>,
                 << P[2][1], P[2][2] >> >>
        FPFt == << << FP[1][1] + FP[1][2], FP[1][2] >>,
                   << FP[2][1] + FP[2][2], FP[2][2] >> >>
    IN  [kf EXCEPT
           !.x = << m[1] + m[2], m[2], m[3] + m[4], m[4] >>,
           !.P = << << FPFt[1][1] + kf.Q[1][1], FPFt[1][2] + kf.Q[1][2] >>,
                    << FPFt[2][1] + kf.Q[2][1], FPFt[2][2] + kf.Q[2][2] >> >>]

\* mutant of update: the measurement matrix selects the velocities
update_WrongH(kf, z) ==
    LET m == kf.x
        P == kf.P
        yx == z[1] * XS - m[2]
        yy == z[2] * XS - m[4]
        S == P[1][1] + kf.R
        K1 == RoundDiv(KS * P[1][1], S)
        K2 == RoundDiv(KS * P[2][1], S)
        A11 == KS - K1
        A21 == 0 - K2
        M11 == RoundDiv(A11 * P[1][1], KS)
        M12 == RoundDiv(A11 * P[1][2], KS)
        M21 == RoundDiv(A21 * P[1][1], KS) + P[2][1]
        M22 == RoundDiv(A21 * P[1][2], KS) + P[2][2]
        N11 == RoundDiv(M11 * A11, KS)
        N12 == RoundDiv(M11 * A21, KS) + M12
        N21 == RoundDiv(M21 * A11, KS)
        N22 == RoundDiv(M21 * A21, KS) + M22
        KR1 == K1 * kf.R
        KR2 == K2 * kf.R
    IN  [kf EXCEPT
           !.x = << m[1] + RoundDiv(K1 * yx, KS), m[2] + RoundDiv(K2 * yx, KS),
                    m[3] + RoundDiv(K1 * yy, KS), m[4] + RoundDiv(K2 * yy, KS) >>,
           !.P = << << N11 + RoundDiv(KR1 * K1, KS * KS),
                       N12 + RoundDiv(KR1 * K2, KS * KS) >>,
                    << N21 + RoundDiv(KR2 * K1, KS * KS),
                       N22 + RoundDiv(KR2 * K2, KS * KS) >> >>]

\* y = z - H x ; S = H P H' + R ; K = P H' S^-1 ; x <- x + K y ;
\* P <- (I - K H) P (I - K H)' + K R K'
update(kf, z) ==
    LET m == kf.x
        P == kf.P
        yx == z[1] * XS - m[1]
        yy == z[2] * XS - m[3]
        S == P[1][1] + kf.R
        K1 == RoundDiv(KS * P[1][1], S)
        K2 == RoundDiv(KS * P[2][1], S)
        A11 == KS - K1
        A21 == 0 - K2
        \* M = (I - K H) P, entries back in covariance units
        M11 == RoundDiv(A11 * P[1][1], KS)
        M12 == RoundDiv(A11 * P[1][2], KS)
        M21 == RoundDiv(A21 * P[1][1], KS) + P[2][1]
        M22 == RoundDiv(A21 * P[1][2], KS) + P[2][2]
        \* N = M (I - K H)'
        N11 == RoundDiv(M11 * A11, KS)
        N12 == RoundDiv(M11 * A21, KS) + M12
        N21 == RoundDiv(M21 * A11, KS)
        N22 == RoundDiv(M21 * A21, KS) + M22
        \* K R K'
        KR1 == K1 * kf.R
        KR2 == K2 * kf.R
    IN  [kf EXCEPT
           !.x = << m[1] + RoundDiv(K1 * yx, KS), m[2] + RoundDiv(K2 * yx, KS),
                    m[3] + RoundDiv(K1 * yy, KS), m[4] + RoundDiv(K2 * yy, KS) >>,
           !.P = << << N11 + RoundDiv(KR1 * K1, KS * KS),
                       N12 + RoundDiv(KR1 * K2, KS * KS) >>,
                    << N21 + RoundDiv(KR2 * K1, KS * KS),
                       N22 + RoundDiv(KR2 * K2, KS * KS) >> >>]

\* ----------------------------------------------------------- TrackedPoint
TrackedPoint(oid, state, sigma_Q, sigma_R) ==
    [ oid |-> oid,
      id |-> 0,
      x |-> state[1], y |-> state[3],
      vx |-> state[2], vy |-> state[4],
      boundary |-> Bounds2D(0, 0, DefaultBoundMax, DefaultBoundMax),
      lifetime |-> 0,
      n_tail_points |-> DefaultTailPoints,
      n_coasts |-> 0,
      max_n_coasts |-> DefaultMaxNCoasts,
      coast_length |-> 0,
      max_coast_length |-> DefaultMaxCoastLength,
      kf |-> point_2d_kalman_filter(state, sigma_Q, sigma_R),
      obs_tail |-> << >>,
      kf_tail |-> << >> ]

kx(t) == t.kf.x[1]
kvx(t) == t.kf.x[2]
ky(t) == t.kf.x[3]
kvy(t) == t.kf.x[4]

update_tail(t) ==
    [t EXCEPT !.kf_tail = TailAppend(t.kf_tail, << kx(t), ky(t) >>, t.n_tail_points)]

\* mutant of step: the lifetime is counted only when the filter is advanced
step_NoCountOutside(t, z) ==
    LET t1 == [t EXCEPT !.x = z[1], !.y = z[2],
                        !.obs_tail = TailAppend(t.obs_tail, << z[1], z[2] >>,
                                                t.n_tail_points)]
    IN  IF ~ contains(t1.boundary, z[1], z[2])
        THEN t1
        ELSE update_tail([t1 EXCEPT !.lifetime = t.lifetime + 1,
                                    !.kf = update(predict(t1.kf), z)])

\* mutant of step: a step starts a new coast distance
step_ResetsCoastLength(t, z) ==
    LET t1 == [t EXCEPT !.lifetime = t.lifetime + 1,
                        !.x = z[1], !.y = z[2],
                        !.coast_length = 0,
                        !.obs_tail = TailAppend(t.obs_tail, << z[1], z[2] >>,
                                                t.n_tail_points)]
    IN  IF ~ contains(t1.boundary, z[1], z[2])
        THEN t1
        ELSE update_tail([t1 EXCEPT !.kf = update(predict(t1.kf), z)])

step(t, z) ==
    LET t1 == [t EXCEPT !.lifetime = t.lifetime + 1,
                        !.x = z[1], !.y = z[2],
                        !.obs_tail = TailAppend(t.obs_tail, << z[1], z[2] >>,
                                                t.n_tail_points)]
    IN  IF ~ contains(t1.boundary, z[1], z[2])
        THEN t1
        ELSE update_tail([t1 EXCEPT !.kf = update(predict(t1.kf), z)])

\* kf.update(np.asarray(z).reshape([len(z), 1])): the filter has dim_z = 2
\* and H x is 2x1, so a measurement that is not 2 long raises; step reaches
\* the update only for a position inside the boundary
StepRaises(t, z) == contains(t.boundary, z[1], z[2]) /\ Len(z) # 2

\* the track as the exception leaves it: counted, observed, predicted
StepRaised(t, z) ==
    LET t1 == [t EXCEPT !.lifetime = t.lifetime + 1,
                        !.x = z[1], !.y = z[2],
                        !.obs_tail = TailAppend(t.obs_tail, << z[1], z[2] >>,
                                                t.n_tail_points)]
    IN  [t1 EXCEPT !.kf = predict(t1.kf)]

\* norm(next - (x, y)) in XS units, rounded down
CoastNorm(t) ==
    LET dx == (kx(t) + kvx(t)) - t.x * XS
        dy == (ky(t) + kvy(t)) - t.y * XS
    IN  ISqrt(dx * dx + dy * dy)

coast(t) ==
    LET t1 == update_tail([t EXCEPT !.kf = predict(t.kf)])
    IN  [t1 EXCEPT !.coast_length = t1.coast_length + CoastNorm(t1),
                   !.n_coasts = t1.n_coasts + 1,
                   !.lifetime = t1.lifetime + 1]

\* mutant of Dist2: distance from the last observed position
Dist2_FromObserved(t, point) ==
    LET dx == point[1] * XS - t.x * XS
        dy == point[2] * XS - t.y * XS
    IN  dx * dx + dy * dy

\* squared distance, in XS units, from the filtered position to a point
Dist2(t, point) ==
    LET dx == point[1] * XS - kx(t)
        dy == point[2] * XS - ky(t)
    IN  dx * dx + dy * dy

\* linear scan keeping the first strict minimum; Inf on an empty list
RECURSIVE ScanNearest(_, _, _, _, _)
ScanNearest(t, z, i, nearest, min_dist) ==
    IF i > Len(z) THEN [nearest |-> nearest, dist |-> min_dist]
    ELSE LET d == Dist2(t, z[i])
         IN  IF min_dist = Inf \/ d < min_dist
             THEN ScanNearest(t, z, i + 1, z[i], d)
             ELSE ScanNearest(t, z, i + 1, nearest, min_dist)

nearest_observation(t, z_candidates) ==
    ScanNearest(t, z_candidates, 1, None, Inf)

in_bounds(t) == contains(t.boundary, t.x, t.y)
\* mutant of coasted_too_long: `n_coasts >= max_n_coasts`
coasted_too_long_AtLimit(t) == t.n_coasts >= t.max_n_coasts

coasted_too_long(t) == t.n_coasts > t.max_n_coasts
coasted_too_far(t) == t.coast_length > t.max_coast_length * XS
\* mutant of is_valid: the coast counter is not consulted
is_valid_NoCoastLimit(t) ==
    IF ~ in_bounds(t) THEN FALSE
    ELSE IF coasted_too_far(t) THEN FALSE
    ELSE TRUE

is_valid(t) ==
    IF ~ in_bounds(t) THEN FALSE
    ELSE IF coasted_too_long(t) THEN FALSE
    ELSE IF coasted_too_far(t) THEN FALSE
    ELSE TRUE

\* ------------------------------------------- match_tracks_to_observations
\* mutant of DistLess: `distance <= distance_threshold`
DistLess_OrEqual(d2, distance_threshold) ==
    /\ d2 # Inf
    /\ distance_threshold > 0
    /\ d2 <= (distance_threshold * XS) * (distance_threshold * XS)

\* `distance < distance_threshold` on the squared distance
DistLess(d2, distance_threshold) ==
    /\ d2 # Inf
    /\ distance_threshold > 0
    /\ d2 < (distance_threshold * XS) * (distance_threshold * XS)

\* The caller's callback: constructs a track at the observation, with the
\* caller's configuration, and appends it to the list.
FreshOid(used) == CHOOSE i \in 1..(MaxTracks + MaxObs) : i \notin used /\ \A j \in 1..(i - 1) : j \in used

track_adder(tracks, used, observation) ==
    LET t == TrackedPoint(FreshOid(used), << observation[1], 0, observation[2], 0 >>,
                          SigmaQ, SigmaR)
    IN  Append(tracks,
               [t EXCEPT !.boundary = Bounds2D(0, 0, CfgBoundMax, CfgBoundMax),
                         !.n_tail_points = CfgTailPoints,
                         !.max_n_coasts = CfgMaxNCoasts,
                         !.max_coast_length = CfgMaxCoastLength])

\* mutant of MatchOne: the matched observation stays in the list
MatchOne_KeepObservation(track, observations, distance_threshold) ==
    LET n == nearest_observation(track, observations)
    IN  IF DistLess(n.dist, distance_threshold)
        THEN IF StepRaises(track, n.nearest)
             THEN [track |-> StepRaised(track, n.nearest),
                   observations |-> observations,
                   stepped |-> n.nearest, raised |-> TRUE]
             ELSE [track |-> [step(track, n.nearest) EXCEPT !.n_coasts = 0],
                   observations |-> observations,
                   stepped |-> n.nearest, raised |-> FALSE]
        ELSE [track |-> coast(track),
              observations |-> observations,
              stepped |-> None, raised |-> FALSE]

\* mutant of MatchOne: a track is left alone when there is no observation
MatchOne_SkipOnEmpty(track, observations, distance_threshold) ==
    LET n == nearest_observation(track, observations)
    IN  IF DistLess(n.dist, distance_threshold)
        THEN IF StepRaises(track, n.nearest)
             THEN [track |-> StepRaised(track, n.nearest),
                   observations |-> observations,
                   stepped |-> n.nearest, raised |-> TRUE]
             ELSE [track |-> [step(track, n.nearest) EXCEPT !.n_coasts = 0],
                   observations |-> ListRemove(observations, n.nearest),
                   stepped |-> n.nearest, raised |-> FALSE]
        ELSE [track |-> IF n.nearest = None THEN track ELSE coast(track),
              observations |-> observations,
              stepped |-> None, raised |-> FALSE]

\* body of the matching loop for one track
MatchOne(track, observations, distance_threshold) ==
    LET n == nearest_observation(track, observations)
    IN  IF DistLess(n.dist, distance_threshold)
        THEN IF StepRaises(track, n.nearest)
             THEN [track |-> StepRaised(track, n.nearest),
                   observations |-> observations,
                   stepped |-> n.nearest, raised |-> TRUE]
             ELSE [track |-> [step(track, n.nearest) EXCEPT !.n_coasts = 0],
                   observations |-> ListRemove(observations, n.nearest),
                   stepped |-> n.nearest, raised |-> FALSE]
        ELSE [track |-> coast(track),
              observations |-> observations,
              stepped |-> None, raised |-> FALSE]

\* mutant of MatchLoop: the tracks are visited from the last to the first
RECURSIVE MatchLoop_LastFirst(_, _, _, _, _)
MatchLoop_LastFirst(tracks, i, observations, stepped, distance_threshold) ==
    IF i > Len(tracks)
    THEN [tracks |-> tracks, observations |-> observations, stepped |-> stepped,
          raised |-> FALSE]
    ELSE LET k == Len(tracks) + 1 - i
             r == MatchOne(tracks[k], observations, distance_threshold)
         IN  IF r.raised
             THEN [tracks |-> [tracks EXCEPT ![k] = r.track],
                   observations |-> r.observations,
                   stepped |-> << r.stepped >> \o stepped, raised |-> TRUE]
             ELSE MatchLoop_LastFirst([tracks EXCEPT ![k] = r.track], i + 1,
                                      r.observations, << r.stepped >> \o stepped,
                                      distance_threshold)

\* for track in tracked_objects: ... (the list itself is not changed here)
\* An exception raised in the body leaves the loop, and the function, at once.
RECURSIVE MatchLoop(_, _, _, _, _)
MatchLoop(tracks, i, observations, stepped, distance_threshold) ==
    IF i > Len(tracks)
    THEN [tracks |-> tracks, observations |-> observations, stepped |-> stepped,
          raised |-> FALSE]
    ELSE LET r == MatchOne(tracks[i], observations, distance_threshold)
         IN  IF r.raised
             THEN [tracks |-> [tracks EXCEPT ![i] = r.track],
                   observations |-> r.observations,
                   stepped |-> Append(stepped, r.stepped), raised |-> TRUE]
             ELSE MatchLoop([tracks EXCEPT ![i] = r.track], i + 1, r.observations,
                            Append(stepped, r.stepped), distance_threshold)

\* mutant of PruneOne: the coast counter is not consulted
PruneOne_NoCoastTest(tracks, t, finished, min_lifetime) ==
    IF is_valid(t)
    THEN [tracks |-> tracks, finished |-> finished]
    ELSE [tracks |-> ListRemove(tracks, t),
          finished |-> IF t.lifetime > min_lifetime
                       THEN Append(finished, t) ELSE finished]

\* mutant of PruneOne: `t.lifetime >= min_lifetime`
PruneOne_AtLeastMinLifetime(tracks, t, finished, min_lifetime) ==
    IF is_valid(t)
    THEN [tracks |-> tracks, finished |-> finished]
    ELSE [tracks |-> ListRemove(tracks, t),
          finished |-> IF t.lifetime >= min_lifetime /\ t.n_coasts < t.max_n_coasts
                       THEN Append(finished, t) ELSE finished]

\* body of the pruning loop for the track at the iterator's position
PruneOne(tracks, t, finished, min_lifetime) ==
    IF is_valid(t)
    THEN [tracks |-> tracks, finished |-> finished]
    ELSE [tracks |-> ListRemove(tracks, t),
          finished |-> IF t.lifetime > min_lifetime /\ t.n_coasts < t.max_n_coasts
                       THEN Append(finished, t) ELSE finished]

\* for t in tracked_objects: ... tracked_objects.remove(t)
\* The list iterator holds an index; it yields tracks[i] while i is within
\* the current length of the list and then moves to i + 1, whatever the body
\* did to the list.
RECURSIVE PruneLoop(_, _, _, _)
PruneLoop(tracks, i, finished, min_lifetime) ==
    IF i > Len(tracks)
    THEN [tracks |-> tracks, finished |-> finished]
    ELSE LET r == PruneOne(tracks, tracks[i], finished, min_lifetime)
         IN  PruneLoop(r.tracks, i + 1, r.finished, min_lifetime)

\* for observation in observations: track_adder(tracked_objects, observation)
RECURSIVE BirthLoop(_, _, _, _)
BirthLoop(tracks, used, observations, i) ==
    IF i > Len(observations) THEN tracks
    ELSE LET ts == track_adder(tracks, used, observations[i])
         IN  BirthLoop(ts, used \cup {ts[Len(ts)].oid}, observations, i + 1)

Oids(tracks) == { tracks[i].oid : i \in 1..Len(tracks) }

\* oid stands for the identity of the Python object.  Within a call it is
\* the position of the track in the list at the start of the call, or the
\* next free number for a track the factory constructs; between calls the
\* tracks are renumbered by position, which no operation can observe.
Renumber(tracks) == [ k \in 1..Len(tracks) |-> [tracks[k] EXCEPT !.oid = k] ]

match_tracks_to_observations(tracks, obs, distance_threshold, max_n_coasts, min_lifetime) ==
    LET m == MatchLoop(tracks, 1, obs, << >>, distance_threshold)
        p == PruneLoop(m.tracks, 1, << >>, min_lifetime)
        b == BirthLoop(p.tracks, Oids(tracks), m.observations, 1)
    IN  IF m.raised
        THEN [ tracked_objects |-> m.tracks,
               observations |-> m.observations,
               finished_tracks |-> << >>,
               mid |-> m.tracks,
               stepped |-> m.stepped,
               pruned |-> m.tracks,
               factory_calls |-> << >>,
               raised |-> TRUE ]
        ELSE [ tracked_objects |-> b,
               observations |-> << >>,
               finished_tracks |-> p.finished,
               mid |-> m.tracks,
               stepped |-> m.stepped,
               pruned |-> p.tracks,
               factory_calls |-> m.observations,
               raised |-> FALSE ]

\* ------------------------------------------------------------------ state
VARIABLES
    tracked_objects,   \* the caller's list of active tracks
    observations,      \* the caller's observation list
    call               \* the last call: its arguments, the list at its start,
                       \* after each phase and at its end, and what it returned

vars == << tracked_objects, observations, call >>

NoCall ==
    [ op |-> "none", obs |-> << >>, distance_threshold |-> 0, max_n_coasts |-> 0,
      min_lifetime |-> 0, pre |-> << >>, mid |-> << >>, stepped |-> << >>,
      pruned |-> << >>, active |-> << >>, factory_calls |-> << >>,
      finished_tracks |-> << >> ]

Init ==
    /\ tracked_objects = << >>
    /\ observations = << >>
    /\ call = NoCall

\* One frame: the caller fills the observation list and calls
\* match_tracks_to_observations.
Match(obs, distance_threshold, max_n_coasts, min_lifetime) ==
    /\ call.op = "none"
    /\ \A i \in 1..Len(tracked_objects) : tracked_objects[i].lifetime < MaxLifetime
    /\ \E r \in { match_tracks_to_observations(tracked_objects, obs, distance_threshold,
                                               max_n_coasts, min_lifetime) } :
           /\ Len(r.tracked_objects) <= MaxTracks
           /\ tracked_objects' = Renumber(r.tracked_objects)
           /\ observations' = r.observations
           /\ call' = [ op |-> IF r.raised THEN "raised" ELSE "match", obs |-> obs,
                        distance_threshold |-> distance_threshold,
                        max_n_coasts |-> max_n_coasts,
                        min_lifetime |-> min_lifetime,
                        pre |-> tracked_objects,
                        mid |-> r.mid,
                        stepped |-> r.stepped,
                        pruned |-> r.pruned,
                        active |-> r.tracked_objects,
                        factory_calls |-> r.factory_calls,
                        finished_tracks |-> r.finished_tracks ]

\* The caller takes the returned list; the next frame can begin.
NextFrame ==
    /\ call.op = "match"
    /\ call' = NoCall
    /\ UNCHANGED << tracked_objects, observations >>

Next ==
    \/ \E obs \in ObsLists, d \in Thresholds, n \in MaxNCoastsArgs, l \in MinLifetimes :
          Match(obs, d, n, l)
    \/ NextFrame

Spec == Init /\ [][Next]_vars

\* the same program fed measurement vectors of any length
NextVec ==
    \/ \E obs \in ObsListsVec, d \in Thresholds, n \in MaxNCoastsArgs, l \in MinLifetimes :
          Match(obs, d, n, l)
    \/ NextFrame

SpecVec == Init /\ [][NextVec]_vars

\* ------------------------------------------------ the estimator on its own
\* An estimator constructed by point_2d_kalman_filter and driven by predict
\* and update alone; `call` holds the estimator, the number of operations,
\* and, for the last predict-update pair, the predicted estimator and the
\* measurement.
KFCall(op, n, kf, pred, z) ==
    [ op |-> op, n |-> n, kf |-> kf, pred |-> pred, z |-> z ]

InitKF ==
    /\ tracked_objects = << >>
    /\ observations = << >>
    /\ \E st \in KFInitStates :
          call = KFCall("kf", 0, point_2d_kalman_filter(st, SigmaQ, SigmaR), None, None)

\* kf.predict()
KFPredict ==
    /\ call.n < MaxKFSteps
    /\ call' = KFCall("predict", call.n + 1, predict(call.kf), None, None)
    /\ UNCHANGED << tracked_objects, observations >>

\* kf.predict(); kf.update(z)
KFPredictUpdate(z) ==
    /\ call.n < MaxKFSteps
    /\ call' = KFCall("update", call.n + 1, update(predict(call.kf), z),
                      predict(call.kf), z)
    /\ UNCHANGED << tracked_objects, observations >>

\* the predicted position, when it is a whole number of units
OnGrid(kf) == kf.x[1] % XS = 0 /\ kf.x[3] % XS = 0

PositionOf(kf) == << kf.x[1] \div XS, kf.x[3] \div XS >>

\* kf.predict(); kf.update((x, y)) with the predicted position itself
KFPredictUpdateExact ==
    /\ OnGrid(predict(call.kf))
    /\ KFPredictUpdate(PositionOf(predict(call.kf)))

NextKF ==
    \/ KFPredict
    \/ \E z \in ObsPoints : KFPredictUpdate(z)
    \/ KFPredictUpdateExact

SpecKF == InitKF /\ [][NextKF]_vars

\* ------------------------------------------- nearest_observation on its own
\* One track and one candidate list; `call` holds the arguments and the
\* returned pair of one call of nearest_observation.
CandidateTrack == TrackedPoint(1, <<3, 0, 3, 0>>, SigmaQ, SigmaR)

\* the track as constructed, after a step, and after a coast
CandidateTracks ==
    { CandidateTrack, step(CandidateTrack, <<5, 5>>), coast(CandidateTrack) }

InitNearest ==
    /\ \E t \in CandidateTracks : tracked_objects = << t >>
    /\ observations \in CandidateLists
    /\ call = NoCall

\* tracked_objects[0].nearest_observation(observations)
Nearest ==
    /\ call.op = "none"
    /\ \E n \in { nearest_observation(tracked_objects[1], observations) } :
          call' = [ op |-> "nearest", track |-> tracked_objects[1],
                    z_candidates |-> observations,
                    nearest |-> n.nearest, dist |-> n.dist ]
    /\ UNCHANGED << tracked_objects, observations >>

NextNearest == Nearest

SpecNearest == InitNearest /\ [][NextNearest]_vars

\* ------------------------------------------------------ is_valid on its own
\* One track with the caller's configuration, its last observed position,
\* coast counter and coast distance on and around the limits, its filtered
\* position inside or outside the Boundary; `call` holds the track and the
\* value returned by one call of is_valid.
EdgeCoords == { -1, 0, CfgBoundMax - 1, CfgBoundMax }
EdgeCoasts == { CfgMaxNCoasts - 1, CfgMaxNCoasts, CfgMaxNCoasts + 1 }
EdgeLengths == { CfgMaxCoastLength * XS - 1, CfgMaxCoastLength * XS,
                 CfgMaxCoastLength * XS + 1 }
EdgeFiltered == { 0, CfgBoundMax * XS }

EdgeTrack(x, y, n_coasts, coast_length, k) ==
    LET t == track_adder(<< >>, { }, << x, y >>)[1]
    IN  [t EXCEPT !.n_coasts = n_coasts,
                  !.coast_length = coast_length,
                  !.kf = [t.kf EXCEPT !.x = << k, 0, k, 0 >>]]

InitValid ==
    /\ \E x \in EdgeCoords, y \in EdgeCoords, n \in EdgeCoasts, l \in EdgeLengths,
          k \in EdgeFiltered :
          tracked_objects = << EdgeTrack(x, y, n, l, k) >>
    /\ observations = << >>
    /\ call = NoCall

\* tracked_objects[0].is_valid()
IsValid ==
    /\ call.op = "none"
    /\ call' = [ op |-> "is_valid", track |-> tracked_objects[1],
                 valid |-> is_valid(tracked_objects[1]) ]
    /\ UNCHANGED << tracked_objects, observations >>

NextValid == IsValid

SpecValid == InitValid /\ [][NextValid]_vars

\* ------------------------------------------------- an endless run of frames
\* The caller fills its observation list and calls
\* match_tracks_to_observations, frame after frame, for ever.  `call` follows
\* one track of the active list: focus is its position in the list (0: no
\* track is followed), matched tells whether the last call stepped it, left
\* is the track as it was when the last call removed it.
LiveCall(op, distance_threshold, focus, matched, left) ==
    [ op |-> op, distance_threshold |-> distance_threshold, focus |-> focus,
      matched |-> matched, left |-> left ]

InitLive ==
    /\ tracked_objects = << >>
    /\ observations = << >>
    /\ call = LiveCall("frame", 0, 0, FALSE, None)

PositionOfOid(tracks, oid) ==
    IF \E k \in 1..Len(tracks) : tracks[k].oid = oid
    THEN CHOOSE k \in 1..Len(tracks) : tracks[k].oid = oid
    ELSE 0

\* a coast counter no track of the program reaches: every track ahead of an
\* invalid one in the list can delay its removal by one call
CoastCap == CfgMaxNCoasts + MaxTracks + 1

\* the run is cut where a track was last stepped at a lifetime of MaxLifetime
MatchCapped ==
    \E k \in 1..Len(tracked_objects) :
        tracked_objects[k].lifetime - tracked_objects[k].n_coasts >= MaxLifetime

\* the observations of the next frame arrive
Arrive(obs, distance_threshold) ==
    /\ call.op = "frame"
    /\ ~ MatchCapped
    /\ \A k \in 1..Len(tracked_objects) : tracked_objects[k].n_coasts < CoastCap
    /\ observations' = obs
    /\ call' = [call EXCEPT !.op = "arrived", !.distance_threshold = distance_threshold]
    /\ UNCHANGED tracked_objects

Arrivals == \E obs \in LiveObsLists, d \in Thresholds : Arrive(obs, d)

\* match_tracks_to_observations(tracked_objects, observations, ...)
Frame(max_n_coasts, min_lifetime) ==
    /\ call.op = "arrived"
    /\ \E r \in { match_tracks_to_observations(tracked_objects, observations,
                                               call.distance_threshold,
                                               max_n_coasts, min_lifetime) } :
           /\ Len(r.tracked_objects) <= MaxTracks
           /\ tracked_objects' = Renumber(r.tracked_objects)
           /\ observations' = r.observations
           /\ call' = IF call.focus = 0
                      THEN LiveCall("frame", 0, 0, FALSE, None)
                      ELSE LET k == PositionOfOid(r.tracked_objects, call.focus)
                           IN  LiveCall("frame", 0, k, r.stepped[call.focus] # None,
                                        IF k = 0 THEN r.mid[call.focus] ELSE None)

\* start following the track at position k
Watch(k) ==
    /\ call.op = "frame"
    /\ call.focus = 0
    /\ k \in 1..Len(tracked_objects)
    /\ call' = LiveCall("frame", 0, k, FALSE, None)
    /\ UNCHANGED << tracked_objects, observations >>

NextLive ==
    \/ Arrivals
    \/ \E n \in MaxNCoastsArgs, l \in MinLifetimes : Frame(n, l)
    \/ \E k \in 1..MaxTracks : Watch(k)

\* frames keep coming
SpecLive == InitLive /\ [][NextLive]_vars /\ WF_vars(Arrivals)

\* ------------------------------------------------- vocabulary of the claims
Called == call.op = "match"

Range(s) == { s[k] : k \in 1..Len(s) }

CountIn(s, v) == Cardinality({ k \in 1..Len(s) : s[k] = v })

\* the track of the active list at the start of the call, after matching
PreIdx == 1..Len(call.pre)

\* the active list when the call returns, with the identities of the call
Active == call.active

Survives(t) == t.oid \in Oids(Active)

Returned(t) == \E k \in 1..Len(call.finished_tracks) : call.finished_tracks[k] = t

\* is_valid, in_bounds and the coast tests, written out from the fields
FieldInBounds(t) ==
    /\ t.boundary.xmin <= t.x /\ t.x < t.boundary.xmax
    /\ t.boundary.ymin <= t.y /\ t.y < t.boundary.ymax

FieldTooLong(t) == t.n_coasts > t.max_n_coasts

FieldTooFar(t) == t.coast_length > t.max_coast_length * XS

FieldValid(t) == FieldInBounds(t) /\ ~ FieldTooLong(t) /\ ~ FieldTooFar(t)

\* C1: after a call, every track that was active at its start and is still
\* active at its end is valid.
C1_NoInvalidSurvivor ==
    Called =>
        \A k \in 1..Len(Active) :
            Active[k].oid \in Oids(call.pre) => FieldValid(Active[k])

\* C2: every track that is invalid after matching, has lifetime above
\* min_lifetime and a coast counter below its maximum is in the returned list.
C2_FinishedComplete ==
    Called =>
        \A i \in PreIdx :
            ( /\ ~ FieldValid(call.mid[i])
              /\ call.mid[i].lifetime > call.min_lifetime
              /\ call.mid[i].n_coasts < call.mid[i].max_n_coasts )
            => Returned(call.mid[i])

C4_ArgumentIsCoastLimit ==
    Called =>
        \A i \in PreIdx :
            call.mid[i].n_coasts > call.max_n_coasts => ~ Survives(call.mid[i])

\* observations still in the pool when the matching loop reaches track i:
\* those supplied, less the ones the earlier tracks stepped on
Remaining(i, v) ==
    CountIn(call.obs, v) - Cardinality({ j \in 1..(i - 1) : call.stepped[j] = v })

PoolAt(i) == { v \in Range(call.obs) : Remaining(i, v) > 0 }

\* squared distance from the filtered position of t to the point v (XS units)
SqDist(t, v) ==
    (v[1] * XS - t.kf.x[1]) * (v[1] * XS - t.kf.x[1])
    + (v[2] * XS - t.kf.x[3]) * (v[2] * XS - t.kf.x[3])

SqThreshold == (call.distance_threshold * XS) * (call.distance_threshold * XS)

Within(t, v) == call.distance_threshold > 0 /\ SqDist(t, v) < SqThreshold

\* C5: a track is stepped exactly when its nearest remaining observation is
\* strictly nearer than distance_threshold, and then on that observation, and
\* its coast counter is 0 after the call; otherwise it is coasted and its
\* coast counter is one more than before.
C5_MatchDecision ==
    Called =>
        \A i \in PreIdx :
            LET t == call.pre[i]
                u == call.mid[i]
                o == call.stepped[i]
            IN  /\ (o # None) <=> (\E v \in PoolAt(i) : Within(t, v))
                /\ o # None =>
                      /\ o \in PoolAt(i)
                      /\ \A v \in PoolAt(i) : SqDist(t, o) <= SqDist(t, v)
                      /\ u.x = o[1] /\ u.y = o[2]
                      /\ u.n_coasts = 0
                /\ o = None =>
                      /\ u.x = t.x /\ u.y = t.y
                      /\ u.n_coasts = t.n_coasts + 1
                      /\ u.kf.x[1] = t.kf.x[1] + t.kf.x[2]
                      /\ u.kf.x[3] = t.kf.x[3] + t.kf.x[4]
                /\ Survives(u) => \E k \in 1..Len(Active) : Active[k] = u

\* one track coasts on an observation exactly at the threshold while another
\* track of the same call is stepped
C5_Witness ==
    /\ Called
    /\ \E i \in PreIdx :
          /\ call.stepped[i] = None
          /\ \E v \in PoolAt(i) : SqDist(call.pre[i], v) = SqThreshold
    /\ \E i \in PreIdx : call.stepped[i] # None /\ call.mid[i].n_coasts = 0

\* C6: every supplied observation is stepped on by exactly one track or
\* passed to the factory exactly once; the factory appends one track per
\* call; the observation list is empty afterwards; with no active track
\* every observation goes to the factory and nothing is returned.
C6_ObservationConservation ==
    Called =>
        /\ observations = << >>
        /\ \A v \in Range(call.obs) \cup Range(call.factory_calls) :
              CountIn(call.obs, v) = CountIn(call.stepped, v) + CountIn(call.factory_calls, v)
        /\ Len(call.obs) = Cardinality({ i \in PreIdx : call.stepped[i] # None })
                           + Len(call.factory_calls)
        /\ Len(tracked_objects) = Len(call.pruned) + Len(call.factory_calls)
        /\ \A k \in 1..Len(call.factory_calls) :
              LET n == Active[Len(call.pruned) + k]
              IN  /\ n.oid \notin Oids(call.pre)
                  /\ n.lifetime = 0
                  /\ n.x = call.factory_calls[k][1] /\ n.y = call.factory_calls[k][2]
        /\ call.pre = << >> =>
              /\ call.factory_calls = call.obs
              /\ call.finished_tracks = << >>

\* a call in which one observation was stepped on and another went to the factory
C6_Witness ==
    /\ Called
    /\ \E i \in PreIdx : call.stepped[i] # None
    /\ Len(call.factory_calls) > 0
    /\ Len(call.obs) >= 2

\* C7: one call adds exactly 1 to the lifetime of every track that was
\* active at its start, stepped (inside or outside the boundary) or coasted.
C7_LifetimeCountsFrames ==
    Called =>
        /\ Len(call.mid) = Len(call.pre)
        /\ \A i \in PreIdx :
              /\ call.mid[i].oid = call.pre[i].oid
              /\ call.mid[i].lifetime = call.pre[i].lifetime + 1
        /\ \A k \in 1..Len(Active) :
              \A i \in PreIdx :
                  Active[k].oid = call.pre[i].oid
                  => /\ Active[k].lifetime = call.pre[i].lifetime + 1
                     /\ tracked_objects[k].lifetime = call.pre[i].lifetime + 1
        /\ \A k \in 1..Len(call.finished_tracks) :
              \A i \in PreIdx :
                  call.finished_tracks[k].oid = call.pre[i].oid
                  => call.finished_tracks[k].lifetime = call.pre[i].lifetime + 1

\* a call with a track stepped on an observation outside its boundary and a
\* track that coasted
C7_Witness ==
    /\ Called
    /\ \E i \in PreIdx :
          /\ call.stepped[i] # None
          /\ ~ ( /\ call.pre[i].boundary.xmin <= call.stepped[i][1]
                 /\ call.stepped[i][1] < call.pre[i].boundary.xmax
                 /\ call.pre[i].boundary.ymin <= call.stepped[i][2]
                 /\ call.stepped[i][2] < call.pre[i].boundary.ymax )
    /\ \E i \in PreIdx : call.stepped[i] = None

AllTracks == Range(tracked_objects) \cup Range(call.mid) \cup Range(call.finished_tracks)

Evicting(tail, n) == IF Len(tail) >= n THEN Tail(tail) ELSE tail

SteppedInside(i) ==
    /\ call.stepped[i] # None
    /\ call.pre[i].boundary.xmin <= call.stepped[i][1]
    /\ call.stepped[i][1] < call.pre[i].boundary.xmax
    /\ call.pre[i].boundary.ymin <= call.stepped[i][2]
    /\ call.stepped[i][2] < call.pre[i].boundary.ymax

\* C8: neither FIFO of a track is ever longer than n_tail_points, and an
\* append to a full FIFO drops exactly the oldest entry.
C8_BoundedHistory ==
    /\ \A t \in AllTracks :
          /\ Len(t.obs_tail) <= t.n_tail_points
          /\ Len(t.kf_tail) <= t.n_tail_points
    /\ Called =>
          \A i \in PreIdx :
              LET t == call.pre[i]
                  u == call.mid[i]
              IN  /\ call.stepped[i] # None =>
                        u.obs_tail = Evicting(t.obs_tail, t.n_tail_points)
                                     \o << call.stepped[i] >>
                  /\ call.stepped[i] = None => u.obs_tail = t.obs_tail
                  /\ (call.stepped[i] = None \/ SteppedInside(i)) =>
                        u.kf_tail = Evicting(t.kf_tail, t.n_tail_points)
                                    \o << << u.kf.x[1], u.kf.x[3] >> >>
                  /\ (call.stepped[i] # None /\ ~ SteppedInside(i)) =>
                        u.kf_tail = t.kf_tail

\* a step that appends to both FIFOs while both are full, the entries of the
\* filtered FIFO being different
C8_Witness ==
    /\ Called
    /\ \E i \in PreIdx :
          /\ SteppedInside(i)
          /\ Len(call.pre[i].obs_tail) = call.pre[i].n_tail_points
          /\ Len(call.pre[i].kf_tail) = call.pre[i].n_tail_points
          /\ call.pre[i].kf_tail[1] # call.pre[i].kf_tail[2]
          /\ call.mid[i].kf_tail[1] = call.pre[i].kf_tail[2]

\* C9: a call with no observation coasts every active track exactly once,
\* steps none, and makes no factory call, whatever the distance threshold.
C9_EmptyFrame ==
    (Called /\ call.obs = << >>) =>
        /\ \A i \in PreIdx :
              /\ call.stepped[i] = None
              /\ call.mid[i].n_coasts = call.pre[i].n_coasts + 1
              /\ call.mid[i].lifetime = call.pre[i].lifetime + 1
              /\ call.mid[i].x = call.pre[i].x /\ call.mid[i].y = call.pre[i].y
              /\ call.mid[i].obs_tail = call.pre[i].obs_tail
              /\ call.mid[i].kf.x[1] = call.pre[i].kf.x[1] + call.pre[i].kf.x[2]
              /\ call.mid[i].kf.x[3] = call.pre[i].kf.x[3] + call.pre[i].kf.x[4]
        /\ call.factory_calls = << >>
        /\ Oids(Active) \subseteq Oids(call.pre)
        /\ Len(tracked_objects) <= Len(call.pre)

\* an empty frame with two active tracks
C9_Witness ==
    /\ Called
    /\ call.obs = << >>
    /\ Len(call.pre) >= 2
    /\ \E k \in 1..Len(tracked_objects) : tracked_objects[k].n_coasts >= 1

\* C11: when the estimator update of one track raises during matching, the
\* call still steps or coasts every other track once and still runs the
\* pruning and birth phases (the observation list is empty afterwards).
C11_FailureIsolated ==
    call.op = "raised" =>
        /\ Len(call.mid) = Len(call.pre)
        /\ Cardinality({ i \in PreIdx :
                            call.mid[i].lifetime = call.pre[i].lifetime + 1 })
              >= Len(call.pre) - 1
        /\ observations = << >>

Trace(P) == 2 * (P[1][1] + P[2][2])

ZeroInnovation ==
    /\ call.op = "update"
    /\ call.z[1] * XS = call.pred.x[1]
    /\ call.z[2] * XS = call.pred.x[3]

\* C12: an update whose measurement is exactly the predicted position leaves
\* the predicted mean unchanged and does not increase the trace of the
\* predicted covariance.
C12_ZeroInnovation ==
    ZeroInnovation =>
        /\ call.kf.x = call.pred.x
        /\ Trace(call.kf.P) <= Trace(call.pred.P)

\* a zero-innovation update of a moving estimator that has been updated before
C12_Witness ==
    /\ ZeroInnovation
    /\ call.n >= 3
    /\ call.pred.x[2] # 0
    /\ call.pred.P[1][1] < InitialP

SteppedOn(v) == { i \in PreIdx : call.stepped[i] = v }

\* v is the nearest observation left for track i, and within the threshold
NearestLeft(i, v) ==
    /\ v \in PoolAt(i)
    /\ Within(call.pre[i], v)
    /\ \A w \in PoolAt(i) : w # v => SqDist(call.pre[i], v) < SqDist(call.pre[i], w)

\* C13: each track chooses among exactly the observations the earlier tracks
\* of the call left; no observation is stepped on by two tracks; when an
\* observation is the nearest left within the threshold for an earlier track
\* it is that track's, and a later track for which it is in range too gets
\* another observation or coasts.
C13_GreedyInOrder ==
    Called =>
        /\ \A i \in PreIdx :
              call.stepped[i] # None =>
                  /\ Remaining(i, call.stepped[i]) > 0
                  /\ \A w \in PoolAt(i) :
                        SqDist(call.pre[i], call.stepped[i]) <= SqDist(call.pre[i], w)
        /\ \A v \in Range(call.obs) : Cardinality(SteppedOn(v)) <= CountIn(call.obs, v)
        /\ \A i \in PreIdx : \A v \in Range(call.obs) :
              NearestLeft(i, v) =>
                  /\ call.stepped[i] = v
                  /\ \A j \in PreIdx :
                        (j > i /\ CountIn(call.obs, v) = 1) => call.stepped[j] # v

\* one observation in range of two tracks: the first steps on it, the second coasts
C13_Witness ==
    /\ Called
    /\ \E i \in PreIdx : \E j \in PreIdx : \E v \in Range(call.obs) :
          /\ i < j
          /\ CountIn(call.obs, v) = 1
          /\ Within(call.pre[i], v) /\ Within(call.pre[j], v)
          /\ call.stepped[i] = v
          /\ call.stepped[j] = None
          /\ call.mid[j].n_coasts = call.pre[j].n_coasts + 1

\* C14: every returned track was active at the start of the call, is not
\* active when the call returns, is invalid, has a lifetime above
\* min_lifetime, and is returned once.
C14_FinishedSound ==
    Called =>
        \A k \in 1..Len(call.finished_tracks) :
            LET f == call.finished_tracks[k]
            IN  /\ f.oid \in Oids(call.pre)
                /\ \E i \in PreIdx : call.mid[i] = f
                /\ f.oid \notin Oids(Active)
                /\ ~ FieldValid(f)
                /\ f.lifetime > call.min_lifetime
                /\ \A j \in 1..Len(call.finished_tracks) :
                      j # k => call.finished_tracks[j].oid # f.oid

\* a call with two active tracks and a positive min_lifetime that returns a track
C14_Witness ==
    /\ Called
    /\ Len(call.pre) = 2
    /\ call.min_lifetime > 0
    /\ Len(call.finished_tracks) >= 1

\* the first position of the candidate list at the least distance from t
FirstNearest(t, z) ==
    CHOOSE k \in 1..Len(z) :
        /\ \A j \in 1..Len(z) : SqDist(t, z[k]) <= SqDist(t, z[j])
        /\ \A j \in 1..(k - 1) : SqDist(t, z[k]) < SqDist(t, z[j])

\* C15: nearest_observation returns the first candidate at the least distance
\* from the filtered position, with that distance; no match and infinity on
\* an empty list; the candidate list and the track are as before the call.
C15_NearestObservation ==
    call.op = "nearest" =>
        /\ IF call.z_candidates = << >>
           THEN call.nearest = None /\ call.dist = Inf
           ELSE LET k == FirstNearest(call.track, call.z_candidates)
                IN  /\ call.nearest = call.z_candidates[k]
                    /\ call.dist = SqDist(call.track, call.z_candidates[k])
        /\ tracked_objects = << call.track >>
        /\ observations = call.z_candidates

\* a tie between two different candidates, the earlier one returned, for a
\* track whose filtered position is not its last observed position
C15_Witness ==
    /\ call.op = "nearest"
    /\ call.track.kf.x[1] # call.track.x * XS
    /\ \E j, k \in 1..Len(call.z_candidates) :
          /\ j < k
          /\ call.z_candidates[j] # call.z_candidates[k]
          /\ SqDist(call.track, call.z_candidates[j]) = call.dist
          /\ SqDist(call.track, call.z_candidates[k]) = call.dist
          /\ call.nearest = call.z_candidates[j]

\* the calls that got as far as stepping a track, aborted or not
Entered == call.op \in { "match", "raised" }

\* C16: a step on a position outside the Boundary leaves the estimator and
\* the filtered-position FIFO as they were, and still records the position,
\* appends it to the observed-position FIFO and counts the frame; a step on a
\* position inside the Boundary runs predict then update and appends one
\* entry, the new filtered position, to the filtered-position FIFO.
C16_StepEffect ==
    Entered =>
        \A i \in 1..Len(call.stepped) :
            call.stepped[i] # None =>
                LET z == call.stepped[i]
                    t == call.pre[i]
                    u == call.mid[i]
                IN  /\ u.x = z[1] /\ u.y = z[2]
                    /\ u.obs_tail = Append(Evicting(t.obs_tail, t.n_tail_points),
                                           << z[1], z[2] >>)
                    /\ u.lifetime = t.lifetime + 1
                    /\ IF SteppedInside(i)
                       THEN /\ u.kf = update(predict(t.kf), z)
                            /\ u.kf_tail = Append(Evicting(t.kf_tail, t.n_tail_points),
                                                  << u.kf.x[1], u.kf.x[3] >>)
                       ELSE /\ u.kf = t.kf
                            /\ u.kf_tail = t.kf_tail

\* distance, in XS units rounded down, from the filtered position of the
\* track u to its last observed position
ObservedToFiltered(u) ==
    ISqrt((u.kf.x[1] - u.x * XS) * (u.kf.x[1] - u.x * XS)
          + (u.kf.x[3] - u.y * XS) * (u.kf.x[3] - u.y * XS))

\* C17: a coast runs predict only, appends the predicted position to the
\* filtered-position FIFO, adds the distance from that predicted position to
\* the last observed position to the cumulative coast distance, adds 1 to the
\* coast counter and to the lifetime, and leaves the last observed position
\* and the observed-position FIFO as they were.
C17_CoastEffect ==
    Called =>
        \A i \in PreIdx :
            call.stepped[i] = None =>
                LET t == call.pre[i]
                    u == call.mid[i]
                IN  /\ u.kf = predict(t.kf)
                    /\ u.kf_tail = Append(Evicting(t.kf_tail, t.n_tail_points),
                                          << u.kf.x[1], u.kf.x[3] >>)
                    /\ u.coast_length = t.coast_length + ObservedToFiltered(u)
                    /\ u.n_coasts = t.n_coasts + 1
                    /\ u.lifetime = t.lifetime + 1
                    /\ u.x = t.x /\ u.y = t.y
                    /\ u.obs_tail = t.obs_tail

\* C18: is_valid is true exactly when the last observed position is inside
\* the Boundary (lower edges included, upper edges excluded), the coast
\* counter is not above max_n_coasts and the coast distance is not above
\* max_coast_length; the filtered position is not consulted.
C18_ValidityPredicate ==
    call.op = "is_valid" =>
        LET t == call.track
        IN  call.valid =
                ( /\ t.boundary.xmin <= t.x /\ t.x < t.boundary.xmax
                  /\ t.boundary.ymin <= t.y /\ t.y < t.boundary.ymax
                  /\ ~ (t.n_coasts > t.max_n_coasts)
                  /\ ~ (t.coast_length > t.max_coast_length * XS) )

\* a valid track on the lower edge, with both coast figures on their limits
\* and a filtered position outside the Boundary
C18_Witness ==
    /\ call.op = "is_valid"
    /\ call.valid
    /\ call.track.x = call.track.boundary.xmin
    /\ call.track.y = call.track.boundary.ymax - 1
    /\ call.track.n_coasts = call.track.max_n_coasts
    /\ call.track.coast_length = call.track.max_coast_length * XS
    /\ call.track.kf.x[1] >= call.track.boundary.xmax * XS

\* C19: a track of the active list that no call steps from some frame onward
\* is eventually removed from the list: again and again the followed track
\* has been stepped by the last call or is gone (or a call is in progress, or
\* the run was cut by a track stepped at the last lifetime the model allows).
C19_NoEternalCoast ==
    []<>(call.focus = 0 \/ call.matched \/ MatchCapped \/ call.op = "arrived")

\* the followed track was removed after coasting past its limit, one call
\* later than the call in which it became invalid
C19_Witness ==
    /\ call.op = "frame"
    /\ call.focus = 0
    /\ call.left # None
    /\ call.left.n_coasts > call.left.max_n_coasts + 1

\* C20: a match sets the coast counter to 0 and leaves the cumulative coast
\* distance as it was; the coast distance of a track never decreases in a
\* call; a matched track whose distance was above max_coast_length before the
\* match has coasted too far, and is invalid, after it.
C20_CoastLengthCumulative ==
    Called =>
        \A i \in PreIdx :
            LET t == call.pre[i]
                u == call.mid[i]
            IN  /\ u.coast_length >= t.coast_length
                /\ call.stepped[i] # None =>
                      /\ u.n_coasts = 0
                      /\ u.coast_length = t.coast_length
                      /\ t.coast_length > t.max_coast_length * XS
                            => coasted_too_far(u) /\ ~ is_valid(u)
                /\ \A k \in 1..Len(Active) :
                      Active[k].oid = t.oid => Active[k].coast_length >= t.coast_length

\* a track that coasted beyond max_coast_length is matched: its counter goes
\* back to 0, its distance stays, and the call removes it
C20_Witness ==
    /\ Called
    /\ \E i \in PreIdx :
          /\ call.stepped[i] # None
          /\ call.pre[i].n_coasts > 0
          /\ call.pre[i].coast_length > call.pre[i].max_coast_length * XS
          /\ call.mid[i].n_coasts = 0
          /\ call.mid[i].coast_length = call.pre[i].coast_length
          /\ ~ Survives(call.pre[i])

====
